---- MODULE Spec2Model ----
(***************************************************************************)
(* The locale update scripts: update_json(path, new_data) loads a locale   *)
(* JSON file, deep-merges a literal payload into it and writes it back;    *)
(* __main__ calls it for the en file and then for the zh file.  The four   *)
(* scripts differ only in their payload literals.                          *)
(*                                                                         *)
(*   SpecMerge  deep_merge alone, applied to drawn (target, source) pairs  *)
(*   SpecHeap   deep_merge on objects with identity: two drawn payloads    *)
(*              merged into one drawn target                               *)
(*   SpecJson   json.dump of a drawn tree into a UTF-8 file and json.load  *)
(*              of the file                                                *)
(*   SpecCall   one call of update_json, on the en path, with the file and *)
(*              the payload drawn from trees of two keys per level         *)
(*   Spec       the script: update_json(en) then update_json(zh), both     *)
(*              files and both payloads drawn from trees over one key      *)
(***************************************************************************)
EXTENDS Integers, Sequences, FiniteSets, TLC

VARIABLES
    target,     \* deep_merge's first argument, mutated in place
    source,     \* deep_merge's second argument
    raised,     \* the exception the last deep_merge call ended with, or NoExc
    merges,     \* how many times deep_merge(target, source) has been called
    target0,    \* the target as it was before the first merge
    fs,         \* the file system: path -> [exists, text]
    new_keys,   \* the module-level payload literals: path -> mapping
    rest,       \* the calls __main__ has still to make
    pc,         \* the statement update_json is about to execute
    path,       \* update_json's parameter
    data,       \* update_json's local
    exc,        \* the exception in flight inside update_json, or NoExc
    stdout,     \* the lines printed so far
    fs0,        \* the file system as it was when the script started
    pre,        \* path -> the file as it was when update_json(path) was last called
    done,       \* the paths whose update_json call has returned
    io,         \* the open() calls made so far, in order: [mode, path]
    heap,       \* the Python objects of the aliasing harness: id -> object
    refs,       \* the ids of its target and of its payloads
    payload0,   \* its payloads as they were before the first merge
    obj,        \* the tree the round trip starts from
    dumped,     \* the text json.dump wrote for it
    loaded,     \* what json.load made of the text
    other       \* the process of another script on the same files, while it
                \* is not the one running: its payloads, calls and position

heapVars == <<heap, refs, payload0>>
jsonVars == <<obj, dumped, loaded>>
\* the variables of the harnesses of deep_merge and of json.dump/json.load
mergeVars == <<target, source, raised, merges, target0, heap, refs, payload0,
               obj, dumped, loaded>>
runVars == <<fs, new_keys, rest, pc, path, data, exc, stdout, fs0, pre, done, io,
             other>>
\* what no statement of update_json touches
idleVars == <<mergeVars, other>>
vars == <<target, source, raised, merges, target0, heap, refs, payload0,
          obj, dumped, loaded,
          fs, new_keys, rest, pc, path, data, exc, stdout, fs0, pre, done, io,
          other>>

----------------------------------------------------------------------------
(* Bounds *)

MaxTargetKeys == 3      \* keys (at all levels together) of a drawn target or file tree
MaxSourceKeys == 2      \* keys (at all levels together) of a drawn payload
MaxMerges == 2          \* deep_merge calls the merge harness makes
MaxFileKeys == 1        \* keys of a drawn file tree, when the script runs both calls
MaxNewKeys == 2         \* keys of a drawn payload, when the script runs both calls
MaxWritten == 2         \* tokens that reach the file before a write fails

----------------------------------------------------------------------------
(* JSON values as json.load builds them: every value carries its Python    *)
(* type t; s is the text of a str, v the elements of a list and the items  *)
(* of a dict in insertion order.                                           *)

Str(s) == [t |-> "str", s |-> s, v |-> <<>>]
Arr(elems) == [t |-> "list", s |-> "", v |-> elems]
Null == [t |-> "NoneType", s |-> "", v |-> <<>>]
Dict(items) == [t |-> "dict", s |-> "", v |-> items]
Item(key, value) == [k |-> key, v |-> value]
EmptyDict == Dict(<<>>)

IsDict(value) == value.t = "dict"

Keys == {"a", "b"}
Leaves == {Str("old"), Str("new"), Arr(<<Str("old"), Str("new")>>)}

NoExc == "none"

----------------------------------------------------------------------------
(* dict operations *)

KeysOf(d) == {d.v[i].k : i \in 1..Len(d.v)}

Has(d, key) == key \in KeysOf(d)

IndexOf(d, key) == CHOOSE i \in 1..Len(d.v) : d.v[i].k = key

Get(d, key) == d.v[IndexOf(d, key)].v

\* d[key] = value: an existing key keeps its position, a new one goes last
SetItemMovesKey(d, key, value) ==
    Dict(SelectSeq(d.v, LAMBDA it : it.k # key) \o <<Item(key, value)>>)

SetItemKeepsMapping(d, key, value) ==
    IF Has(d, key)
    THEN IF IsDict(Get(d, key))
         THEN d
         ELSE Dict([d.v EXCEPT ![IndexOf(d, key)].v = value])
    ELSE Dict(Append(d.v, Item(key, value)))

SetItemConcat(d, key, value) ==
    IF Has(d, key) /\ Get(d, key).t = "list" /\ value.t = "list"
    THEN Dict([d.v EXCEPT ![IndexOf(d, key)].v = Arr(Get(d, key).v \o value.v)])
    ELSE IF Has(d, key)
         THEN Dict([d.v EXCEPT ![IndexOf(d, key)].v = value])
         ELSE Dict(Append(d.v, Item(key, value)))

SetItemReplaces(d, key, value) == Dict(<<Item(key, value)>>)

SetItem(d, key, value) ==
    IF Has(d, key)
    THEN Dict([d.v EXCEPT ![IndexOf(d, key)].v = value])
    ELSE Dict(Append(d.v, Item(key, value)))

\* d.setdefault(key, default), the dict afterwards; the call returns Get of it
SetDefaultInsertsNone(d, key, default) ==
    IF Has(d, key) THEN d ELSE Dict(Append(d.v, Item(key, Null)))

SetDefaultOverwrites(d, key, default) == SetItem(d, key, default)

SetDefault(d, key, default) ==
    IF Has(d, key) THEN d ELSE Dict(Append(d.v, Item(key, default)))

----------------------------------------------------------------------------
(* deep_merge(target, source): the for loop over source.items().  The      *)
(* result is the target after the call, the exception that ended it and   *)
(* the number of iterations the loops of the call and of its nested calls *)
(* made.                                                                   *)
(* A non-dict target has neither setdefault nor item assignment by key.    *)

RECURSIVE MergeItems(_, _, _)

DeepMergeClears(tgt, src) == MergeItems(EmptyDict, src.v, 1)

DeepMerge(tgt, src) == MergeItems(tgt, src.v, 1)

RECURSIVE MergeItemsEmptyAsLeaf(_, _, _)
MergeItemsEmptyAsLeaf(tgt, items, i) ==
    IF i > Len(items) THEN [tree |-> tgt, exc |-> NoExc, steps |-> 0]
    ELSE LET key == items[i].k
             value == items[i].v
         IN IF IsDict(value) /\ value # EmptyDict
            THEN IF ~IsDict(tgt)
                 THEN [tree |-> tgt, exc |-> "AttributeError", steps |-> 1]
                 ELSE LET t1 == SetDefault(tgt, key, EmptyDict)
                          r == DeepMerge(Get(t1, key), value)
                          t2 == SetItem(t1, key, r.tree)
                      IN IF r.exc # NoExc
                         THEN [tree |-> t2, exc |-> r.exc, steps |-> 1 + r.steps]
                         ELSE LET m == MergeItemsEmptyAsLeaf(t2, items, i + 1)
                              IN [m EXCEPT !.steps = 1 + r.steps + @]
            ELSE IF ~IsDict(tgt)
                 THEN [tree |-> tgt, exc |-> "TypeError", steps |-> 1]
                 ELSE LET m == MergeItemsEmptyAsLeaf(SetItem(tgt, key, value), items, i + 1)
                      IN [m EXCEPT !.steps = 1 + @]

MergeItems(tgt, items, i) ==
    IF i > Len(items) THEN [tree |-> tgt, exc |-> NoExc, steps |-> 0]
    ELSE LET key == items[i].k
             value == items[i].v
         IN IF IsDict(value)
            THEN IF ~IsDict(tgt)
                 THEN [tree |-> tgt, exc |-> "AttributeError", steps |-> 1]
                 ELSE LET t1 == SetDefault(tgt, key, EmptyDict)
                          r == DeepMerge(Get(t1, key), value)
                          t2 == SetItem(t1, key, r.tree)
                      IN IF r.exc # NoExc
                         THEN [tree |-> t2, exc |-> r.exc, steps |-> 1 + r.steps]
                         ELSE LET m == MergeItems(t2, items, i + 1)
                              IN [m EXCEPT !.steps = 1 + r.steps + @]
            ELSE IF ~IsDict(tgt)
                 THEN [tree |-> tgt, exc |-> "TypeError", steps |-> 1]
                 ELSE LET m == MergeItems(SetItem(tgt, key, value), items, i + 1)
                      IN [m EXCEPT !.steps = 1 + @]

----------------------------------------------------------------------------
(* The drawn trees: every dict over a key set with at most n keys in all,  *)
(* in every insertion order.                                               *)

RECURSIVE ItemsOfSize(_, _, _, _)
RECURSIVE ValuesOfSize(_, _, _)

\* the values with n keys in all: the leaves lv and the dicts over the keys ks
ValuesOfSize(ks, lv, n) ==
    (IF n = 0 THEN lv ELSE {}) \cup {Dict(items) : items \in ItemsOfSize(ks, lv, ks, n)}

\* the item sequences with n keys in all whose own keys are distinct keys of free
ItemsOfSize(ks, lv, free, n) ==
    IF n = 0 THEN {<<>>}
    ELSE UNION {
           UNION {
             {<<Item(key, value)>> \o more :
                 value \in ValuesOfSize(ks, lv, j),
                 more \in ItemsOfSize(ks, lv, free \ {key}, n - 1 - j)}
             : j \in 0..(n - 1)}
           : key \in free}

DictsUpTo(ks, lv, n) ==
    UNION {{Dict(items) : items \in ItemsOfSize(ks, lv, ks, m)} : m \in 0..n}

TargetTrees == DictsUpTo(Keys, Leaves, MaxTargetKeys)
SourceTrees == DictsUpTo(Keys, Leaves, MaxSourceKeys)

----------------------------------------------------------------------------
(* The text of a file: the sequence of its JSON tokens, the line breaks    *)
(* with their indentation included.                                        *)

Indent == 2

P(sym) == [c |-> "punct", s |-> sym, n |-> 0]
StrTok(s) == [c |-> "string", s |-> s, n |-> 0]
Nl(level) == [c |-> "newline", s |-> "", n |-> level * Indent]

\* A str is a sequence of characters, each a one-character string.  The
\* strings of a module are ASCII, so three letters of the alphabet name
\* characters outside ASCII: "E" is U+00E9, "Z" is U+4E2D and "M" is
\* U+1F4CB (two, three and four bytes of UTF-8); "?" names every character
\* the alphabet lacks.
Letters == "abcdefghijklmnopqrstuvwxyz"

\* ord(c)
CodePoint(c) ==
    CASE c = "\t" -> 9
      [] c = "\n" -> 10
      [] c = " " -> 32
      [] c = "\"" -> 34
      [] c = "," -> 44
      [] c = "/" -> 47
      [] c = ":" -> 58
      [] c = "[" -> 91
      [] c = "\\" -> 92
      [] c = "]" -> 93
      [] c = "{" -> 123
      [] c = "}" -> 125
      [] c = "E" -> 233
      [] c = "Z" -> 20013
      [] c = "M" -> 128203
      [] OTHER -> 96 + CHOOSE i \in 1..Len(Letters) : SubSeq(Letters, i, i) = c

\* chr(cp)
Chr(cp) ==
    CASE cp = 9 -> "\t"
      [] cp = 10 -> "\n"
      [] cp = 32 -> " "
      [] cp = 34 -> "\""
      [] cp = 44 -> ","
      [] cp = 47 -> "/"
      [] cp = 58 -> ":"
      [] cp = 91 -> "["
      [] cp = 92 -> "\\"
      [] cp = 93 -> "]"
      [] cp = 123 -> "{"
      [] cp = 125 -> "}"
      [] cp = 233 -> "E"
      [] cp = 20013 -> "Z"
      [] cp = 128203 -> "M"
      [] cp \in 97..122 -> SubSeq(Letters, cp - 96, cp - 96)
      [] OTHER -> "?"

\* json.dump's encoding of a str (ensure_ascii=False): the characters
\* between the quotes; ", \ and the control characters are escaped and
\* every other character, ASCII or not, is written as it is
RECURSIVE EscapeFrom(_, _)
EscapeFrom(s, i) ==
    IF i > Len(s) THEN ""
    ELSE LET c == SubSeq(s, i, i)
         IN (IF c = "\"" THEN "\\\""
             ELSE IF c = "\\" THEN "\\\\"
             ELSE IF c = "\n" THEN "\\n"
             ELSE IF c = "\t" THEN "\\t"
             ELSE c) \o EscapeFrom(s, i + 1)

EncodeStringPlain(s) == s

EncodeString(s) == EscapeFrom(s, 1)

\* json.load's decoding of the characters between the quotes, or the
\* failure to: an escape it does not know, a control character
NoString == [ok |-> FALSE, s |-> ""]

RECURSIVE UnescapeFrom(_, _, _)
UnescapeFrom(w, i, acc) ==
    IF i > Len(w) THEN [ok |-> TRUE, s |-> acc]
    ELSE LET c == SubSeq(w, i, i)
         IN IF c = "\\"
            THEN IF i = Len(w) THEN NoString
                 ELSE LET e == SubSeq(w, i + 1, i + 1)
                      IN IF e \in {"\"", "\\", "/"}
                         THEN UnescapeFrom(w, i + 2, acc \o e)
                         ELSE IF e = "n" THEN UnescapeFrom(w, i + 2, acc \o "\n")
                         ELSE IF e = "t" THEN UnescapeFrom(w, i + 2, acc \o "\t")
                         ELSE NoString
            ELSE IF c \in {"\"", "\n", "\t"} THEN NoString
            ELSE UnescapeFrom(w, i + 1, acc \o c)

DecodeString(w) == UnescapeFrom(w, 1, "")

\* json.dump(data, f, indent=2, ensure_ascii=False): the text written
RECURSIVE Encode(_, _)
RECURSIVE EncodeElems(_, _, _)
RECURSIVE EncodeItems(_, _, _)

Encode(value, level) ==
    IF value.t = "str" THEN <<StrTok(EncodeString(value.s))>>
    ELSE IF value.t = "NoneType" THEN <<P("null")>>
    ELSE IF value.t = "list"
         THEN IF Len(value.v) = 0
              THEN <<P("["), P("]")>>
              ELSE <<P("[")>> \o EncodeElems(value.v, 1, level + 1)
                              \o <<Nl(level), P("]")>>
         ELSE IF Len(value.v) = 0
              THEN <<P("{"), P("}")>>
              ELSE <<P("{")>> \o EncodeItems(value.v, 1, level + 1)
                              \o <<Nl(level), P("}")>>

EncodeElems(elems, i, level) ==
    IF i > Len(elems) THEN <<>>
    ELSE (IF i > 1 THEN <<P(",")>> ELSE <<>>)
         \o <<Nl(level)>> \o Encode(elems[i], level)
         \o EncodeElems(elems, i + 1, level)

EncodeItems(items, i, level) ==
    IF i > Len(items) THEN <<>>
    ELSE (IF i > 1 THEN <<P(",")>> ELSE <<>>)
         \o <<Nl(level), StrTok(EncodeString(items[i].k)), P(":")>>
         \o Encode(items[i].v, level)
         \o EncodeItems(items, i + 1, level)

Dumps(value) == Encode(value, 0)

\* json.load(f): the value parsed from the text, or the failure to parse
ParseError == [ok |-> FALSE, value |-> Null, next |-> 0]
Parsed(value, next) == [ok |-> TRUE, value |-> value, next |-> next]

RECURSIVE SkipWs(_, _)
SkipWs(toks, i) ==
    IF i <= Len(toks) /\ toks[i].c = "newline" THEN SkipWs(toks, i + 1) ELSE i

IsAt(toks, i, tok) == i <= Len(toks) /\ toks[i] = tok

RECURSIVE ParseValue(_, _)
RECURSIVE ParseElems(_, _, _)
RECURSIVE ParseItems(_, _, _)

ParseValue(toks, i0) ==
    LET i == SkipWs(toks, i0)
    IN IF i > Len(toks) THEN ParseError
       ELSE IF toks[i].c = "string"
            THEN LET d == DecodeString(toks[i].s)
                 IN IF d.ok THEN Parsed(Str(d.s), i + 1) ELSE ParseError
       ELSE IF toks[i] = P("null") THEN Parsed(Null, i + 1)
       ELSE IF toks[i] = P("[")
            THEN LET j == SkipWs(toks, i + 1)
                 IN IF IsAt(toks, j, P("]")) THEN Parsed(Arr(<<>>), j + 1)
                    ELSE ParseElems(toks, j, <<>>)
       ELSE IF toks[i] = P("{")
            THEN LET j == SkipWs(toks, i + 1)
                 IN IF IsAt(toks, j, P("}")) THEN Parsed(EmptyDict, j + 1)
                    ELSE ParseItems(toks, j, EmptyDict)
       ELSE ParseError

\* the elements after "[": value ("," value)* "]"
ParseElems(toks, i, acc) ==
    LET r == ParseValue(toks, i)
    IN IF ~r.ok THEN ParseError
       ELSE LET j == SkipWs(toks, r.next)
            IN IF IsAt(toks, j, P(","))
               THEN ParseElems(toks, j + 1, Append(acc, r.value))
               ELSE IF IsAt(toks, j, P("]"))
                    THEN Parsed(Arr(Append(acc, r.value)), j + 1)
                    ELSE ParseError

\* the members after "{": string ":" value ("," string ":" value)* "}";
\* a repeated key keeps its first position and takes the last value
ParseItems(toks, i0, acc) ==
    LET i == SkipWs(toks, i0)
        c == SkipWs(toks, i + 1)
    IN IF ~(i <= Len(toks) /\ toks[i].c = "string") THEN ParseError
       ELSE IF ~DecodeString(toks[i].s).ok THEN ParseError
       ELSE IF ~IsAt(toks, c, P(":")) THEN ParseError
       ELSE LET r == ParseValue(toks, c + 1)
            IN IF ~r.ok THEN ParseError
               ELSE LET j == SkipWs(toks, r.next)
                        acc1 == SetItem(acc, DecodeString(toks[i].s).s, r.value)
                    IN IF IsAt(toks, j, P(","))
                       THEN ParseItems(toks, j + 1, acc1)
                       ELSE IF IsAt(toks, j, P("}"))
                            THEN Parsed(acc1, j + 1)
                            ELSE ParseError

LoadsLenient(text) ==
    LET r == ParseValue(text, 1)
    IN IF r.ok /\ SkipWs(text, r.next) > Len(text) THEN r ELSE Parsed(EmptyDict, 0)

Loads(text) ==
    LET r == ParseValue(text, 1)
    IN IF r.ok /\ SkipWs(text, r.next) > Len(text) THEN r ELSE ParseError

----------------------------------------------------------------------------
(* The bytes of a file: open(path, mode, encoding='utf-8') encodes the     *)
(* characters written and decodes the bytes read.  SpecJson writes a drawn *)
(* tree with json.dump and reads it back with json.load.                   *)

MaxJsonKeys == 2        \* keys (at all levels together) of a drawn tree of SpecJson

\* the UTF-8 bytes of one code point
Utf8Bytes(cp) ==
    IF cp < 128 THEN <<cp>>
    ELSE IF cp < 2048 THEN <<192 + (cp \div 64), 128 + (cp % 64)>>
    ELSE IF cp < 65536
         THEN <<224 + (cp \div 4096), 128 + ((cp \div 64) % 64), 128 + (cp % 64)>>
         ELSE <<240 + (cp \div 262144), 128 + ((cp \div 4096) % 64),
                128 + ((cp \div 64) % 64), 128 + (cp % 64)>>

RECURSIVE Utf8From(_, _)
Utf8From(s, i) ==
    IF i > Len(s) THEN <<>>
    ELSE Utf8Bytes(CodePoint(SubSeq(s, i, i))) \o Utf8From(s, i + 1)

\* s.encode('utf-8')
Utf8(s) == Utf8From(s, 1)

\* the continuation bytes b[i+1..i+k] are there
Continues(b, i, k) ==
    /\ i + k <= Len(b)
    /\ \A j \in 1..k : b[i + j] \in 128..191

RECURSIVE Utf8DecodeFrom(_, _, _)
Utf8DecodeFrom(b, i, acc) ==
    IF i > Len(b) THEN [ok |-> TRUE, s |-> acc]
    ELSE IF b[i] < 128 THEN Utf8DecodeFrom(b, i + 1, acc \o Chr(b[i]))
    ELSE IF b[i] \in 192..223 /\ Continues(b, i, 1)
         THEN Utf8DecodeFrom(b, i + 2,
                  acc \o Chr((b[i] - 192) * 64 + (b[i + 1] - 128)))
    ELSE IF b[i] \in 224..239 /\ Continues(b, i, 2)
         THEN Utf8DecodeFrom(b, i + 3,
                  acc \o Chr((b[i] - 224) * 4096 + (b[i + 1] - 128) * 64
                             + (b[i + 2] - 128)))
    ELSE IF b[i] \in 240..247 /\ Continues(b, i, 3)
         THEN Utf8DecodeFrom(b, i + 4,
                  acc \o Chr((b[i] - 240) * 262144 + (b[i + 1] - 128) * 4096
                             + (b[i + 2] - 128) * 64 + (b[i + 3] - 128)))
    ELSE NoString

RECURSIVE Latin1DecodeFrom(_, _, _)
Latin1DecodeFrom(b, i, acc) ==
    IF i > Len(b) THEN [ok |-> TRUE, s |-> acc]
    ELSE Latin1DecodeFrom(b, i + 1, acc \o Chr(b[i]))

DecodeLatin1(b) == Latin1DecodeFrom(b, 1, "")

\* b.decode('utf-8'), or the UnicodeDecodeError
DecodeUtf8(b) == Utf8DecodeFrom(b, 1, "")

\* the bytes f.write puts into the file for the text json.dump produces
EncodeText(toks) ==
    [i \in 1..Len(toks) |-> [c |-> toks[i].c, n |-> toks[i].n, b |-> Utf8(toks[i].s)]]

\* the text f.read makes of the bytes
DecodeText(bytes) ==
    [ok |-> \A i \in 1..Len(bytes) : DecodeUtf8(bytes[i].b).ok,
     text |-> [i \in 1..Len(bytes) |->
                  [c |-> bytes[i].c, s |-> DecodeUtf8(bytes[i].b).s, n |-> bytes[i].n]]]

JsonKeys == {"a", "Z\""}
JsonLeaves ==
    {Str("old"), Str("EZM"), Str("say \"a/b\"\n\\t\t"),
     Arr(<<>>), Arr(<<Str("Z"), Str("\\")>>)}
JsonTrees == DictsUpTo(JsonKeys, JsonLeaves, MaxJsonKeys)

IdleHeap == heap = <<>> /\ refs = [target |-> 0, sources |-> <<>>] /\ payload0 = <<>>

\* json.load has not been called
NotLoaded == [ok |-> FALSE, value |-> Null, next |-> -1]

IdleJson == obj = EmptyDict /\ dumped = <<>> /\ loaded = NotLoaded

IdleRun ==
    /\ fs = <<>> /\ fs0 = <<>> /\ new_keys = <<>> /\ rest = <<>> /\ pc = "idle"
    /\ path = "none" /\ data = EmptyDict /\ exc = [type |-> NoExc, lineno |-> 0]
    /\ stdout = <<>> /\ pre = <<>> /\ done = {} /\ io = <<>>
    /\ other = <<>>

InitJson ==
    /\ obj \in JsonTrees
    /\ dumped = <<>>
    /\ loaded = NotLoaded
    /\ target = EmptyDict /\ source = EmptyDict /\ raised = NoExc
    /\ merges = 0 /\ target0 = EmptyDict
    /\ IdleHeap
    /\ IdleRun

\* with open(path, 'w', encoding='utf-8') as f: json.dump(obj, f, indent=2,
\* ensure_ascii=False)
JsonDump ==
    /\ dumped = <<>>
    /\ dumped' = EncodeText(Dumps(obj))
    /\ UNCHANGED <<obj, loaded>>
    /\ UNCHANGED <<target, source, raised, merges, target0, heapVars, runVars>>

\* with open(path, 'r', encoding='utf-8') as f: json.load(f)
JsonLoad ==
    /\ dumped # <<>>
    /\ LET d == DecodeText(dumped)
       IN loaded' = IF d.ok THEN Loads(d.text) ELSE ParseError
    /\ UNCHANGED <<obj, dumped>>
    /\ UNCHANGED <<target, source, raised, merges, target0, heapVars, runVars>>

NextJson == JsonDump \/ JsonLoad

SpecJson == InitJson /\ [][NextJson]_vars

----------------------------------------------------------------------------
(* Tree queries used by the properties *)

RECURSIVE TreeSize(_)
TreeSize(value) ==
    IF ~IsDict(value) THEN 0
    ELSE LET RECURSIVE Sum(_)
             Sum(i) == IF i > Len(value.v) THEN 0
                       ELSE 1 + TreeSize(value.v[i].v) + Sum(i + 1)
         IN Sum(1)

----------------------------------------------------------------------------
(* The merge harness *)

InitMerge ==
    /\ target0 \in TargetTrees
    /\ target = target0
    /\ source \in SourceTrees
    /\ raised = NoExc
    /\ merges = 0
    /\ IdleHeap
    /\ IdleJson
    /\ IdleRun

CallDeepMerge ==
    /\ merges < MaxMerges
    /\ LET r == DeepMerge(target, source)
       IN /\ target' = r.tree
          /\ raised' = r.exc
    /\ merges' = merges + 1
    /\ UNCHANGED <<source, target0>>
    /\ UNCHANGED <<heapVars, jsonVars, runVars>>

NextMerge == CallDeepMerge

SpecMerge == InitMerge /\ [][NextMerge]_vars

----------------------------------------------------------------------------
(* deep_merge on Python objects.  A dict or a list is an object with an    *)
(* identity: heap maps an id to the object, a dict holds the ids of its    *)
(* values, and target[key] = value stores the id of the source's object.   *)
(* SpecHeap merges two drawn payloads into one drawn target, in any order. *)

MaxHeapTargetKeys == 1  \* keys of the drawn target of SpecHeap
MaxHeapSourceKeys == 2  \* keys of each of its drawn payloads

Ref(key, id) == [k |-> key, r |-> id]

RECURSIVE Store(_, _)
RECURSIVE StoreItems(_, _, _, _)

\* the objects a literal builds: heap h with the objects of value added,
\* and the id of value
Store(h, value) ==
    IF IsDict(value)
    THEN LET r == StoreItems(h, value.v, 1, <<>>)
         IN [h |-> Append(r.h, Dict(r.items)), id |-> Len(r.h) + 1]
    ELSE [h |-> Append(h, value), id |-> Len(h) + 1]

StoreItems(h, items, i, acc) ==
    IF i > Len(items) THEN [h |-> h, items |-> acc]
    ELSE LET r == Store(h, items[i].v)
         IN StoreItems(r.h, items, i + 1, Append(acc, Ref(items[i].k, r.id)))

RECURSIVE Deref(_, _)
\* the tree under the object id
Deref(h, id) ==
    IF IsDict(h[id])
    THEN Dict([i \in 1..Len(h[id].v) |->
                   Item(h[id].v[i].k, Deref(h, h[id].v[i].r))])
    ELSE h[id]

HeapHas(h, t, key) == \E i \in 1..Len(h[t].v) : h[t].v[i].k = key

HeapGet(h, t, key) == h[t].v[CHOOSE i \in 1..Len(h[t].v) : h[t].v[i].k = key].r

\* target[key] = value: the dict t refers to the object id at key
HeapSetItem(h, t, key, id) ==
    IF HeapHas(h, t, key)
    THEN [h EXCEPT ![t].v[CHOOSE i \in 1..Len(h[t].v) : h[t].v[i].k = key].r = id]
    ELSE [h EXCEPT ![t].v = Append(@, Ref(key, id))]

RECURSIVE HeapMergeItems(_, _, _, _)

\* node = target.setdefault(key, {}); deep_merge(node, value)
MergeMappingShares(h, t, key, id) ==
    IF HeapHas(h, t, key)
    THEN HeapMergeItems(h, HeapGet(h, t, key), h[id].v, 1)
    ELSE [h |-> HeapSetItem(h, t, key, id), exc |-> NoExc]

MergeMapping(h, t, key, id) ==
    IF HeapHas(h, t, key)
    THEN HeapMergeItems(h, HeapGet(h, t, key), h[id].v, 1)
    ELSE LET node == Len(h) + 1
         IN HeapMergeItems(Append(HeapSetItem(h, t, key, node), EmptyDict),
                           node, h[id].v, 1)

\* for key, value in source.items(): ..., on the object t
HeapMergeItems(h, t, items, i) ==
    IF i > Len(items) THEN [h |-> h, exc |-> NoExc]
    ELSE LET key == items[i].k
             id == items[i].r
         IN IF IsDict(h[id])
            THEN IF ~IsDict(h[t])
                 THEN [h |-> h, exc |-> "AttributeError"]
                 ELSE LET r == MergeMapping(h, t, key, id)
                      IN IF r.exc # NoExc THEN r
                         ELSE HeapMergeItems(r.h, t, items, i + 1)
            ELSE IF ~IsDict(h[t])
                 THEN [h |-> h, exc |-> "TypeError"]
                 ELSE HeapMergeItems(HeapSetItem(h, t, key, id), t, items, i + 1)

HeapDeepMerge(h, t, s) == HeapMergeItems(h, t, h[s].v, 1)

HeapKeys == {"a"}
HeapTargets == DictsUpTo(HeapKeys, {Str("old")}, MaxHeapTargetKeys)
HeapSources ==
    DictsUpTo(Keys, {Str("new"), Arr(<<Str("new")>>)}, MaxHeapSourceKeys)

InitHeap ==
    /\ \E t \in HeapTargets, p1 \in HeapSources, p2 \in HeapSources :
           LET s0 == Store(<<>>, t)
               s1 == Store(s0.h, p1)
               s2 == Store(s1.h, p2)
           IN /\ heap = s2.h
              /\ refs = [target |-> s0.id, sources |-> <<s1.id, s2.id>>]
              /\ payload0 = <<p1, p2>>
              /\ target0 = t
    /\ target = EmptyDict /\ source = EmptyDict
    /\ raised = NoExc
    /\ merges = 0
    /\ IdleJson
    /\ IdleRun

\* deep_merge(target, payload), for either payload
HeapCallDeepMerge ==
    /\ merges < MaxMerges
    /\ \E n \in 1..Len(refs.sources) :
           LET r == HeapDeepMerge(heap, refs.target, refs.sources[n])
           IN /\ heap' = r.h
              /\ raised' = r.exc
    /\ merges' = merges + 1
    /\ UNCHANGED <<target, source, target0, refs, payload0>>
    /\ UNCHANGED <<jsonVars, runVars>>

NextHeap == HeapCallDeepMerge

SpecHeap == InitHeap /\ [][NextHeap]_vars

\* every merge on the objects makes of the target's tree what DeepMerge
\* makes of it
HeapMergeIsDeepMerge ==
    [][\E n \in 1..Len(refs.sources) :
           LET r == DeepMerge(Deref(heap, refs.target), Deref(heap, refs.sources[n]))
           IN Deref(heap', refs.target) = r.tree /\ raised' = r.exc]_vars


----------------------------------------------------------------------------
(* The files and the payloads *)

EN_PATH == "app/locales/en.json"
ZH_PATH == "app/locales/zh.json"
Paths == {EN_PATH, ZH_PATH}

File(text) == [exists |-> TRUE, text |-> text]
NoFile == [exists |-> FALSE, text |-> <<>>]

\* texts that are no JSON document: an empty file, a document cut short
MalformedTexts == {<<>>, <<P("{"), Nl(1), StrTok("a"), P(":")>>}
\* documents whose root is no object: a string, an array, null
OtherRootTexts == {Dumps(Str("old")), Dumps(Arr(<<Str("old")>>)), Dumps(Null)}

\* the leaves of the drawn files and payloads (arrays are drawn in SpecMerge)
FileLeaves == {Str("old")}
NewLeaves == {Str("new")}

CallFiles ==
    {NoFile} \cup {File(Dumps(tree)) : tree \in DictsUpTo(Keys, FileLeaves, MaxTargetKeys)}
             \cup {File(text) : text \in MalformedTexts \cup OtherRootTexts}
\* a payload that assigns a key before it reaches a mapping
StagedPayloads ==
    {Dict(<<Item("a", Str("new")), Item("b", Dict(<<Item("a", Str("new"))>>))>>)}

CallPayloads == DictsUpTo(Keys, NewLeaves, MaxSourceKeys) \cup StagedPayloads

ScriptKeys == {"a"}
ScriptFiles ==
    {NoFile, File(<<>>), File(Dumps(Str("old")))}
        \cup {File(Dumps(tree)) : tree \in DictsUpTo(ScriptKeys, {Str("old")}, MaxFileKeys)}
ScriptPayloads == DictsUpTo(ScriptKeys, {Str("new")}, MaxNewKeys)

----------------------------------------------------------------------------
(* update_json(path, new_data) and __main__.  An exception carries its     *)
(* type and the line of update_json that raised it; the lines open and     *)
(* json.load/json.dump can fail at for reasons outside the program         *)
(* (permissions, the disk) fail nondeterministically.                      *)

Exc(type, lineno) == [type |-> type, lineno |-> lineno]
NoRaise == Exc(NoExc, 0)

Line(kind, p, e) == [line |-> kind, path |-> p, e |-> e]

\* open(path, mode)
Io(mode, p) == [mode |-> mode, path |-> p]

\* except Exception: the classes the handler catches
CatchesOSErrorOnly(type) ==
    type \in {"PermissionError", "FileNotFoundError", "OSError"}

CatchesNoOSError(type) ==
    type \in {"JSONDecodeError", "UnicodeDecodeError", "TypeError", "AttributeError"}

Catches(type) ==
    type \in {"PermissionError", "FileNotFoundError", "OSError", "UnicodeDecodeError",
              "JSONDecodeError", "TypeError", "AttributeError"}

\* a process of a script: its payload literals, the calls its __main__ has
\* still to make, and where it stands in update_json
Proc(payloads, calls, at, p, d, e) ==
    [new_keys |-> payloads, rest |-> calls, pc |-> at, path |-> p, data |-> d,
     exc |-> e]
\* no other script is run
NoProc == Proc(<<>>, <<>>, "absent", "none", EmptyDict, NoRaise)

InitRun(files, payloads, calls) ==
    /\ fs = files
    /\ fs0 = files
    /\ pre = files
    /\ new_keys = payloads
    /\ rest = calls
    /\ pc = "main"
    /\ path = "none"
    /\ data = EmptyDict
    /\ exc = NoRaise
    /\ stdout = <<>>
    /\ done = {}
    /\ io = <<>>
    /\ target = EmptyDict /\ source = EmptyDict /\ raised = NoExc
    /\ merges = 0 /\ target0 = EmptyDict
    /\ IdleHeap
    /\ IdleJson

\* the script: both files and both payloads drawn
Init ==
    /\ \E files \in [Paths -> ScriptFiles], payloads \in [Paths -> ScriptPayloads] :
           InitRun(files, payloads, <<EN_PATH, ZH_PATH>>)
    /\ other = NoProc

\* one call: the en file and the en payload drawn from the full sets
InitCall ==
    /\ \E file \in CallFiles, payload \in CallPayloads :
        InitRun([p \in Paths |-> IF p = EN_PATH THEN file ELSE NoFile],
                [p \in Paths |-> IF p = EN_PATH THEN payload ELSE EmptyDict],
                <<EN_PATH>>)
    /\ other = NoProc

Raise(type, lineno) ==
    /\ exc' = Exc(type, lineno)
    /\ pc' = "except"

\* __main__: update_json(EN_PATH, new_keys_en) / update_json(ZH_PATH, new_keys_zh),
\* up to data = {}
Call ==
    /\ pc = "main"
    /\ rest # <<>>
    /\ path' = Head(rest)
    /\ rest' = Tail(rest)
    /\ pre' = [pre EXCEPT ![Head(rest)] = fs[Head(rest)]]
    /\ data' = EmptyDict
    /\ pc' = "exists"
    /\ UNCHANGED <<fs, fs0, new_keys, exc, stdout, done, io>>
    /\ UNCHANGED idleVars

\* if os.path.exists(path):
ExistsAlwaysTrue ==
    /\ pc = "exists"
    /\ pc' = "open_r"
    /\ UNCHANGED <<fs, fs0, new_keys, rest, path, data, exc, stdout, pre, done, io>>
    /\ UNCHANGED idleVars

Exists ==
    /\ pc = "exists"
    /\ pc' = IF fs[path].exists THEN "open_r" ELSE "merge"
    /\ UNCHANGED <<fs, fs0, new_keys, rest, path, data, exc, stdout, pre, done, io>>
    /\ UNCHANGED idleVars

\* with open(path, 'r', encoding='utf-8') as f:
OpenRead ==
    /\ pc = "open_r"
    /\ fs[path].exists
    /\ pc' = "load"
    /\ UNCHANGED <<fs, fs0, new_keys, rest, path, data, exc, stdout, pre, done>>
    /\ io' = Append(io, Io("r", path))
    /\ UNCHANGED idleVars

OpenReadFails ==
    /\ pc = "open_r"
    /\ Raise(IF fs[path].exists THEN "PermissionError" ELSE "FileNotFoundError", 51)
    /\ UNCHANGED <<fs, fs0, new_keys, rest, path, data, stdout, pre, done>>
    /\ io' = Append(io, Io("r", path))
    /\ UNCHANGED idleVars

\* data = json.load(f)
LoadDropsResult ==
    /\ pc = "load"
    /\ IF Loads(fs[path].text).ok
       THEN pc' = "merge" /\ exc' = exc
       ELSE Raise("JSONDecodeError", 52)
    /\ UNCHANGED <<fs, fs0, new_keys, rest, path, data, stdout, pre, done, io>>
    /\ UNCHANGED idleVars

Load ==
    /\ pc = "load"
    /\ LET r == Loads(fs[path].text)
       IN IF r.ok
          THEN /\ data' = r.value
               /\ pc' = "merge"
               /\ exc' = exc
          ELSE /\ Raise("JSONDecodeError", 52)
               /\ data' = data
    /\ UNCHANGED <<fs, fs0, new_keys, rest, path, stdout, pre, done, io>>
    /\ UNCHANGED idleVars

\* f.read() inside json.load fails: the bytes are no UTF-8, the device fails
LoadReadFails ==
    /\ pc = "load"
    /\ \E type \in {"UnicodeDecodeError", "OSError"} : Raise(type, 52)
    /\ UNCHANGED <<fs, fs0, new_keys, rest, path, data, stdout, pre, done, io>>
    /\ UNCHANGED idleVars

\* deep_merge(data, new_data)
MergeSwallowsError ==
    /\ pc = "merge"
    /\ data' = DeepMerge(data, new_keys[path]).tree
    /\ pc' = "open_w"
    /\ UNCHANGED <<fs, fs0, new_keys, rest, path, exc, stdout, pre, done, io>>
    /\ UNCHANGED idleVars

Merge ==
    /\ pc = "merge"
    /\ LET r == DeepMerge(data, new_keys[path])
       IN /\ data' = r.tree
          /\ IF r.exc = NoExc
             THEN pc' = "open_w" /\ exc' = exc
             ELSE Raise(r.exc, 63)
    /\ UNCHANGED <<fs, fs0, new_keys, rest, path, stdout, pre, done, io>>
    /\ UNCHANGED idleVars

\* with open(path, 'w', encoding='utf-8') as f: the file is created or truncated
OpenWriteNoTruncate ==
    /\ pc = "open_w"
    /\ fs' = [fs EXCEPT ![path] = IF fs[path].exists THEN fs[path] ELSE File(<<>>)]
    /\ pc' = "dump"
    /\ UNCHANGED <<fs0, new_keys, rest, path, data, exc, stdout, pre, done>>
    /\ io' = Append(io, Io("w", path))
    /\ UNCHANGED idleVars

OpenWriteReports ==
    /\ pc = "open_w"
    /\ fs' = [fs EXCEPT ![path] = File(<<>>)]
    /\ stdout' = Append(stdout, Line("Updated", path, NoExc))
    /\ pc' = "dump"
    /\ UNCHANGED <<fs0, new_keys, rest, path, data, exc, pre, done>>
    /\ io' = Append(io, Io("w", path))
    /\ UNCHANGED idleVars

OpenWrite ==
    /\ pc = "open_w"
    /\ fs' = [fs EXCEPT ![path] = File(<<>>)]
    /\ pc' = "dump"
    /\ UNCHANGED <<fs0, new_keys, rest, path, data, exc, stdout, pre, done>>
    /\ io' = Append(io, Io("w", path))
    /\ UNCHANGED idleVars

OpenWriteFails ==
    /\ pc = "open_w"
    /\ \E type \in {"PermissionError", "FileNotFoundError"} : Raise(type, 65)
    /\ UNCHANGED <<fs, fs0, new_keys, rest, path, data, stdout, pre, done>>
    /\ io' = Append(io, Io("w", path))
    /\ UNCHANGED idleVars

\* json.dump(data, f, indent=2, ensure_ascii=False), and the close of f
DumpToEnPath ==
    /\ pc = "dump"
    /\ fs' = [fs EXCEPT ![EN_PATH] = File(Dumps(data))]
    /\ pc' = "print"
    /\ UNCHANGED <<fs0, new_keys, rest, path, data, exc, stdout, pre, done, io>>
    /\ UNCHANGED idleVars

\* the file after written went out at offset 0 of a file that held old:
\* open(path, 'w') emptied the file and set the position to 0, and what
\* another process wrote since then stays beyond the end of written
WriteAt0(old, written) == written \o SubSeq(old, Len(written) + 1, Len(old))

DumpAppends ==
    /\ pc = "dump"
    /\ fs' = [fs EXCEPT ![path] = File(pre[path].text \o Dumps(data))]
    /\ pc' = "print"
    /\ UNCHANGED <<fs0, new_keys, rest, path, data, exc, stdout, pre, done, io>>
    /\ UNCHANGED idleVars

Dump ==
    /\ pc = "dump"
    /\ fs' = [fs EXCEPT ![path] = File(WriteAt0(fs[path].text, Dumps(data)))]
    /\ pc' = "print"
    /\ UNCHANGED <<fs0, new_keys, rest, path, data, exc, stdout, pre, done, io>>
    /\ UNCHANGED idleVars

\* the write fails part-way: the file keeps what reached it
DumpFails ==
    /\ pc = "dump"
    /\ \E n \in 0..(Len(Dumps(data)) - 1) :
           /\ n <= MaxWritten
           /\ fs' = [fs EXCEPT ![path] =
                         File(WriteAt0(fs[path].text, SubSeq(Dumps(data), 1, n)))]
    /\ Raise("OSError", 66)
    /\ UNCHANGED <<fs0, new_keys, rest, path, data, stdout, pre, done, io>>
    /\ UNCHANGED idleVars

\* print(f"Updated {path}")
PrintUpdated ==
    /\ pc = "print"
    /\ stdout' = Append(stdout, Line("Updated", path, NoExc))
    /\ pc' = "return"
    /\ UNCHANGED <<fs, fs0, new_keys, rest, path, data, exc, pre, done, io>>
    /\ UNCHANGED idleVars

\* except Exception as e: print(f"Error updating {path}: {e}"); an exception
\* the handler does not catch leaves update_json and ends the script
ExceptExits ==
    /\ pc = "except"
    /\ IF Catches(exc.type)
       THEN /\ stdout' = Append(stdout, Line("Error updating", path, exc.type))
            /\ exc' = NoRaise
            /\ pc' = "exited"
       ELSE /\ pc' = "crashed"
            /\ UNCHANGED <<stdout, exc>>
    /\ UNCHANGED <<fs, fs0, new_keys, rest, path, data, pre, done, io>>
    /\ UNCHANGED idleVars

ExceptRetries ==
    /\ pc = "except"
    /\ IF Catches(exc.type)
       THEN /\ stdout' = Append(stdout, Line("Error updating", path, exc.type))
            /\ exc' = NoRaise
            /\ pc' = "exists"
       ELSE /\ pc' = "crashed"
            /\ UNCHANGED <<stdout, exc>>
    /\ UNCHANGED <<fs, fs0, new_keys, rest, path, data, pre, done, io>>
    /\ UNCHANGED idleVars

ExceptSilent ==
    /\ pc = "except"
    /\ IF Catches(exc.type)
       THEN /\ exc' = NoRaise
            /\ pc' = "return"
            /\ UNCHANGED stdout
       ELSE /\ pc' = "crashed"
            /\ UNCHANGED <<stdout, exc>>
    /\ UNCHANGED <<fs, fs0, new_keys, rest, path, data, pre, done, io>>
    /\ UNCHANGED idleVars

Except ==
    /\ pc = "except"
    /\ IF Catches(exc.type)
       THEN /\ stdout' = Append(stdout, Line("Error updating", path, exc.type))
            /\ exc' = NoRaise
            /\ pc' = "return"
       ELSE /\ pc' = "crashed"
            /\ UNCHANGED <<stdout, exc>>
    /\ UNCHANGED <<fs, fs0, new_keys, rest, path, data, pre, done, io>>
    /\ UNCHANGED idleVars

\* update_json returns to __main__
Return ==
    /\ pc = "return"
    /\ done' = done \cup {path}
    /\ path' = "none"
    /\ data' = EmptyDict
    /\ pc' = "main"
    /\ UNCHANGED <<fs, fs0, new_keys, rest, exc, stdout, pre, io>>
    /\ UNCHANGED idleVars

Next ==
    \/ Call
    \/ Exists
    \/ OpenRead
    \/ OpenReadFails
    \/ LoadReadFails
    \/ Load
    \/ Merge
    \/ OpenWrite
    \/ OpenWriteFails
    \/ Dump
    \/ DumpFails
    \/ PrintUpdated
    \/ Except
    \/ Return

Spec == Init /\ [][Next]_vars

SpecCall == InitCall /\ [][Next]_vars

\* The files and payloads of the runs that go through update_json more than
\* once on the en file: a missing, an empty and three well-formed files;
\* payloads that share a leaf path, that disagree on whether a key is a
\* mapping, and that are independent of each other.
SeriesFiles ==
    {NoFile, File(<<>>),
     File(Dumps(Dict(<<Item("a", Str("old"))>>))),
     File(Dumps(Dict(<<Item("b", Str("old"))>>))),
     File(Dumps(Dict(<<Item("a", Dict(<<Item("b", Str("old"))>>))>>)))}
SeriesPayloads ==
    {Dict(<<Item("a", Str("new"))>>),
     Dict(<<Item("a", Str("newer"))>>),
     Dict(<<Item("b", Str("newer"))>>),
     Dict(<<Item("a", Dict(<<Item("a", Str("new"))>>))>>),
     Dict(<<Item("a", Dict(<<Item("b", Str("newer"))>>))>>)}

\* the second run of a script also meets documents whose root is no object
\* and payloads that assign a key before they reach a mapping
AgainFiles == SeriesFiles \cup {File(text) : text \in MalformedTexts \cup OtherRootTexts}
AgainPayloads == SeriesPayloads \cup StagedPayloads \cup {EmptyDict}

\* the script run twice in a row, followed on the en path: the same call
\* with the same payload, the second on the file the first left
InitAgain ==
    /\ \E file \in AgainFiles, payload \in AgainPayloads :
        InitRun([p \in Paths |-> IF p = EN_PATH THEN file ELSE NoFile],
                [p \in Paths |-> IF p = EN_PATH THEN payload ELSE EmptyDict],
                <<EN_PATH, EN_PATH>>)
    /\ other = NoProc

SpecAgain == InitAgain /\ [][Next]_vars

\* Two scripts of the series run one after the other on the en file
\* (update_locales_part2.py, then update_locales_part3.py, in either
\* order): each has its own payload literal and the same update_json.
OnEnPath(payload) == [p \in Paths |-> IF p = EN_PATH THEN payload ELSE EmptyDict]

InitSeries ==
    \E file \in SeriesFiles, first \in SeriesPayloads, second \in SeriesPayloads :
        /\ InitRun([p \in Paths |-> IF p = EN_PATH THEN file ELSE NoFile],
                   OnEnPath(first), <<EN_PATH>>)
        /\ other = Proc(OnEnPath(second), <<EN_PATH>>, "main", "none", EmptyDict, NoRaise)

\* the first script has ended; the next one is started
StartNext ==
    /\ pc = "main"
    /\ rest = <<>>
    /\ other.pc = "main"
    /\ other.rest # <<>>
    /\ new_keys' = other.new_keys
    /\ rest' = other.rest
    /\ other' = Proc(new_keys, rest, "ended", path, data, exc)
    /\ UNCHANGED <<fs, fs0, pc, path, data, exc, stdout, pre, done, io>>
    /\ UNCHANGED mergeVars

NextSeries ==
    \/ Next
    \/ StartNext

SpecSeries == InitSeries /\ [][NextSeries]_vars

\* Two scripts started together on the en file, as two processes: the one
\* the scheduler runs stands in the variables of the call, the one that
\* waits in other.  Nothing in update_json takes a lock, so the scheduler
\* may change processes between any two statements.
InitConc ==
    \E file \in SeriesFiles, first \in SeriesPayloads, second \in SeriesPayloads :
        /\ InitRun([p \in Paths |-> IF p = EN_PATH THEN file ELSE NoFile],
                   OnEnPath(first), <<EN_PATH>>)
        /\ other = Proc(OnEnPath(second), <<EN_PATH>>, "main", "none", EmptyDict, NoRaise)

\* the scheduler suspends the running process and resumes the other one
Switch ==
    /\ ~(other.pc = "main" /\ other.rest = <<>>)
    /\ new_keys' = other.new_keys
    /\ rest' = other.rest
    /\ pc' = other.pc
    /\ path' = other.path
    /\ data' = other.data
    /\ exc' = other.exc
    /\ other' = Proc(new_keys, rest, pc, path, data, exc)
    /\ UNCHANGED <<fs, fs0, stdout, pre, done, io>>
    /\ UNCHANGED mergeVars

NextConc ==
    \/ Next
    \/ Switch

SpecConc == InitConc /\ [][NextConc]_vars

\* the files and payloads of the runs followed to their end
LiveFiles == {NoFile, File(<<>>), File(Dumps(Dict(<<Item("a", Str("old"))>>)))}
LivePayloads ==
    {Dict(<<Item("a", Str("new"))>>),
     Dict(<<Item("a", Dict(<<Item("a", Str("new"))>>))>>)} \cup StagedPayloads

InitLive ==
    /\ \E files \in [Paths -> LiveFiles], payloads \in [Paths -> LivePayloads] :
           InitRun(files, payloads, <<EN_PATH, ZH_PATH>>)
    /\ other = NoProc

\* the script as the interpreter runs it: one thread, every statement
\* blocking, so a statement that can run does run
SpecLive == InitLive /\ [][Next]_vars /\ WF_vars(Next)

----------------------------------------------------------------------------
(* Properties of deep_merge (SpecMerge) *)

RECURSIVE Preserved(_, _, _)
\* every key of a that b does not name is in r with a's value, also inside
\* the keys at which a and b both hold dicts
Preserved(a, b, r) ==
    \A key \in KeysOf(a) :
        IF ~Has(b, key)
        THEN Has(r, key) /\ Get(r, key) = Get(a, key)
        ELSE (IsDict(Get(a, key)) /\ IsDict(Get(b, key))) =>
                 /\ Has(r, key)
                 /\ IsDict(Get(r, key))
                 /\ Preserved(Get(a, key), Get(b, key), Get(r, key))

RECURSIVE HasLeaf(_)
\* b holds at least one path that ends in a non-dict value
HasLeaf(b) ==
    \E i \in 1..Len(b.v) : IF IsDict(b.v[i].v) THEN HasLeaf(b.v[i].v) ELSE TRUE

RECURSIVE LeavesTaken(_, _)
\* every leaf path of b is a path of r, with b's value
LeavesTaken(b, r) ==
    \A key \in KeysOf(b) :
        LET bv == Get(b, key)
        IN IF IsDict(bv)
           THEN IF IsDict(r) /\ Has(r, key)
                THEN LeavesTaken(bv, Get(r, key))
                ELSE ~HasLeaf(bv)
           ELSE IsDict(r) /\ Has(r, key) /\ Get(r, key) = bv

\* C1: after deep_merge(A, B) every key of A that is not a key of B is still
\* in A with its original value, and the same holds inside every key at
\* which A and B both hold mappings.
C1_KeysAbsentFromSourceKept ==
    merges >= 1 => Preserved(target0, source, target)

C1_Witness ==
    /\ merges = 1
    /\ raised = NoExc
    /\ target0 = Dict(<<Item("a", Dict(<<Item("a", Str("old")), Item("b", Str("old"))>>))>>)
    /\ source = Dict(<<Item("a", Dict(<<Item("a", Str("new"))>>))>>)
    /\ target = Dict(<<Item("a", Dict(<<Item("a", Str("new")), Item("b", Str("old"))>>))>>)

\* C2: after merging B into A, every leaf key path of B (a path ending in a
\* non-mapping value) is a path of the result and holds B's value there,
\* whatever A held along that path.
C2_SourceLeavesTaken ==
    merges >= 1 => LeavesTaken(source, target)

\* C3: when the source value at a key is a mapping and the target holds a
\* non-mapping value at that key, the target holds a mapping at that key
\* after the merge.
C3_NonMappingReplacedByMapping ==
    merges >= 1 =>
        \A key \in KeysOf(source) \cap KeysOf(target0) :
            (IsDict(Get(source, key)) /\ ~IsDict(Get(target0, key)))
                => (Has(target, key) /\ IsDict(Get(target, key)))

\* C4: deep_merge has no error outcome: the merge of any source mapping
\* into any target tree completes without raising.
C4_MergeNeverRaises ==
    merges >= 1 => raised = NoExc

\* C9: merging is idempotent: merging B into the result of merging B into A
\* leaves the tree (and the outcome of the call) as the first merge left it.
C9_MergeIdempotent ==
    [][merges >= 1 => (target' = target /\ raised' = raised)]_vars

C9_Witness ==
    /\ merges = 2
    /\ raised = NoExc
    /\ target # target0
    /\ TreeSize(target) > TreeSize(target0)
    /\ \E i \in 1..Len(source.v) : source.v[i].v.t = "list"

----------------------------------------------------------------------------
(* Properties of update_json (SpecCall) and of the script (Spec) *)

Printed(kind, p) ==
    \E i \in 1..Len(stdout) : stdout[i].line = kind /\ stdout[i].path = p

\* the call of update_json(p) has begun
Called(p) == path = p \/ p \in done

RECURSIVE IsMergeOf(_, _, _)
\* r holds the keys of a and of b; a key b does not name holds a's value, a
\* key at which b holds a leaf holds b's value, and a key at which b holds a
\* dict holds the merge of that dict into a's dict (into {} where a has no
\* such key).  Where b holds a dict over a leaf of a, r is not constrained.
IsMergeOf(a, b, r) ==
    /\ IsDict(r)
    /\ KeysOf(r) = KeysOf(a) \cup KeysOf(b)
    /\ \A key \in KeysOf(r) :
           IF ~Has(b, key) THEN Get(r, key) = Get(a, key)
           ELSE IF ~IsDict(Get(b, key)) THEN Get(r, key) = Get(b, key)
           ELSE IF ~Has(a, key) THEN IsMergeOf(EmptyDict, Get(b, key), Get(r, key))
           ELSE IF IsDict(Get(a, key))
                THEN IsMergeOf(Get(a, key), Get(b, key), Get(r, key))
                ELSE TRUE

\* C5: when update_json runs on a path whose file holds invalid JSON text,
\* it prints the error line and not the success line for that path, and the
\* file is, during and after the call, what it was before the call.
C5_MalformedBaseReportedAndKept ==
    \A p \in Paths :
        (Called(p) /\ pre[p].exists /\ pre[p].text \in MalformedTexts) =>
            /\ fs[p] = pre[p]
            /\ ~Printed("Updated", p)
            /\ (p \in done => Printed("Error updating", p))

C5_Witness ==
    /\ EN_PATH \in done
    /\ pre[EN_PATH] = File(<<P("{"), Nl(1), StrTok("a"), P(":")>>)
    /\ fs[EN_PATH] = pre[EN_PATH]
    /\ stdout = <<Line("Error updating", EN_PATH, "JSONDecodeError")>>

\* C6: the file is written back atomically: in every state of an
\* update_json run the file holds the complete pre-run document or the
\* complete merged document, never an empty or partial one.
C6_WriteAtomic ==
    \A p \in Paths :
        \/ fs[p] = pre[p]
        \/ /\ Called(p)
           /\ (~pre[p].exists \/ Loads(pre[p].text).ok)
           /\ fs[p] = File(Dumps(DeepMerge(
                  IF pre[p].exists THEN Loads(pre[p].text).value ELSE EmptyDict,
                  new_keys[p]).tree))

\* C7: when the file does not exist update_json starts from an empty
\* mapping: no line before the write raises, the tree it goes on to write
\* is the payload, and once it has reported success the file exists and
\* holds exactly the payload tree.
C7_MissingFileGivesPayload ==
    \A p \in Paths :
        (Called(p) /\ ~pre[p].exists) =>
            /\ (path = p /\ pc = "except") => exc.lineno \in {65, 66}
            /\ (path = p /\ pc = "open_w") => data = new_keys[p]
            /\ Printed("Updated", p) =>
                   /\ fs[p].exists
                   /\ Loads(fs[p].text) = Parsed(new_keys[p], Len(fs[p].text) + 1)

C7_Witness ==
    /\ EN_PATH \in done
    /\ ~pre[EN_PATH].exists
    /\ new_keys[EN_PATH] = Dict(<<Item("a", Dict(<<Item("b", Str("new"))>>))>>)
    /\ stdout = <<Line("Updated", EN_PATH, NoExc)>>
    /\ fs[EN_PATH] = File(<<P("{"), Nl(1), StrTok("a"), P(":"), P("{"),
                            Nl(2), StrTok("b"), P(":"), StrTok("new"),
                            Nl(1), P("}"), Nl(0), P("}")>>)

\* C8: when the base file holds a valid object-rooted tree, after a
\* successful update_json the file's tree is the deep merge of the base
\* with the payload: the leaves the payload names hold the payload's value
\* and the other keys, also inside a nested mapping, keep their old value.
C8_FileHoldsMerge ==
    \A p \in Paths :
        (/\ Printed("Updated", p)
         /\ pre[p].exists
         /\ Loads(pre[p].text).ok
         /\ IsDict(Loads(pre[p].text).value)) =>
            /\ fs[p].exists
            /\ Loads(fs[p].text).ok
            /\ IsMergeOf(Loads(pre[p].text).value, new_keys[p], Loads(fs[p].text).value)
            /\ LeavesTaken(new_keys[p], Loads(fs[p].text).value)

C8_Witness ==
    /\ EN_PATH \in done
    /\ stdout = <<Line("Updated", EN_PATH, NoExc)>>
    /\ Loads(pre[EN_PATH].text).value =
           Dict(<<Item("a", Dict(<<Item("a", Str("old")), Item("b", Str("old"))>>))>>)
    /\ new_keys[EN_PATH] = Dict(<<Item("a", Dict(<<Item("a", Str("new"))>>))>>)
    /\ Loads(fs[EN_PATH].text).value =
           Dict(<<Item("a", Dict(<<Item("a", Str("new")), Item("b", Str("old"))>>))>>)

\* C10: an error raised while reading, parsing, merging or writing one path
\* is caught inside update_json: no exception leaves it, every call
\* returns, and the zh call is made with the zh file, the locals and the
\* exception state as they are when the en call succeeds, whether the en
\* call succeeded or failed.
C10_ErrorsStayInsideCall ==
    /\ pc # "crashed"
    /\ (pc = "except" => ENABLED Except) /\ (pc = "return" => ENABLED Return)
    /\ (pc = "main" /\ rest # <<>>) => ENABLED Call
    /\ (pc = "main" /\ rest = <<>>) => done = Paths
    /\ (pc = "exists" /\ path = ZH_PATH) =>
           /\ EN_PATH \in done
           /\ fs[ZH_PATH] = fs0[ZH_PATH]
           /\ data = EmptyDict
           /\ exc = NoRaise

C10_Witness ==
    /\ pc = "main"
    /\ rest = <<>>
    /\ done = Paths
    /\ stdout = <<Line("Error updating", EN_PATH, "TypeError"),
                  Line("Updated", ZH_PATH, NoExc)>>

----------------------------------------------------------------------------
(* The report lines of update_json (Spec) *)

\* the number of lines printed for path p
LinesFor(p) == Cardinality({i \in 1..Len(stdout) : stdout[i].path = p})

\* C11: every call of update_json prints exactly one report line for its
\* path, "Updated <path>" or "Error updating <path>: ...": a path whose call
\* has returned has exactly one line, never both kinds and never none; a
\* path whose call is in progress has at most one, printed right before the
\* return; a path not yet called has none; and no call ends without
\* returning.
C11_OneReportLinePerCall ==
    /\ pc # "crashed"
    /\ \A p \in Paths :
           /\ p \in done => LinesFor(p) = 1
           /\ (path = p /\ pc = "return") => LinesFor(p) = 1
           /\ (path = p /\ pc # "return") => LinesFor(p) = 0
           /\ ~Called(p) => LinesFor(p) = 0
           /\ ~(Printed("Updated", p) /\ Printed("Error updating", p))

C11_Witness ==
    /\ done = Paths
    /\ LinesFor(EN_PATH) = 1
    /\ LinesFor(ZH_PATH) = 1
    /\ Printed("Updated", EN_PATH)
    /\ Printed("Error updating", ZH_PATH)

----------------------------------------------------------------------------
(* The two branches of deep_merge, key by key (SpecMerge) *)

RECURSIVE Clash(_, _)
\* the merge of mapping b into a raises: b holds something and a is no
\* mapping, or b holds a mapping at a key whose merge into a's value raises
Clash(a, b) ==
    IF IsDict(a)
    THEN \E key \in KeysOf(b) \cap KeysOf(a) :
             IsDict(Get(b, key)) /\ Clash(Get(a, key), Get(b, key))
    ELSE b # EmptyDict

\* the loop of the outermost call gets to the i-th item of source: no item
\* before it raises
Reached(i) ==
    \A j \in 1..(i - 1) :
        LET it == source.v[j]
        IN ~(IsDict(it.v) /\ Has(target0, it.k) /\ Clash(Get(target0, it.k), it.v))

\* C12: when the source value at a key is not a mapping, deep_merge sets
\* the target's value at that key to exactly the source value, whatever the
\* target held there: a nested mapping is replaced as a whole, and an array
\* is replaced by the source array, never concatenated or merged element by
\* element.  (Stated for every key the loop gets to.)
C12_NonMappingValueAssigned ==
    merges >= 1 =>
        \A i \in 1..Len(source.v) :
            (~IsDict(source.v[i].v) /\ Reached(i)) =>
                /\ Has(target, source.v[i].k)
                /\ Get(target, source.v[i].k) = source.v[i].v

C12_Witness ==
    /\ merges = 1
    /\ target0 = Dict(<<Item("a", Dict(<<Item("a", Str("old"))>>)),
                        Item("b", Arr(<<Str("old"), Str("new")>>))>>)
    /\ source = Dict(<<Item("a", Str("new")),
                       Item("b", Arr(<<Str("old"), Str("new")>>))>>)
    /\ target = Dict(<<Item("a", Str("new")),
                       Item("b", Arr(<<Str("old"), Str("new")>>))>>)

RECURSIVE Created(_, _, _)
\* every mapping b holds at a key a lacks is in r there, equal to b's, also
\* inside the keys at which a and b both hold mappings
Created(a, b, r) ==
    \A key \in KeysOf(b) :
        IsDict(Get(b, key)) =>
            IF ~Has(a, key)
            THEN Has(r, key) /\ Get(r, key) = Get(b, key)
            ELSE IsDict(Get(a, key)) =>
                     /\ Has(r, key)
                     /\ Created(Get(a, key), Get(b, key), Get(r, key))

\* C13: when the source value at a key is a mapping and the target has no
\* such key, deep_merge creates a new mapping at that key and fills it from
\* the source recursively: the missing mapping nodes along every payload
\* path exist afterwards and the created subtree equals the source subtree.
\* (Stated for every key the loop of the outermost call gets to, and at
\* every depth when the merge completes.)
C13_MissingMappingCreated ==
    merges >= 1 =>
        /\ \A i \in 1..Len(source.v) :
               (IsDict(source.v[i].v) /\ ~Has(target0, source.v[i].k) /\ Reached(i)) =>
                   /\ Has(target, source.v[i].k)
                   /\ Get(target, source.v[i].k) = source.v[i].v
        /\ raised = NoExc => Created(target0, source, target)

C13_WitnessNested ==
    /\ merges = 1
    /\ target0 = Dict(<<Item("b", Dict(<<Item("b", Str("old"))>>))>>)
    /\ source = Dict(<<Item("b", Dict(<<Item("a", EmptyDict)>>))>>)
    /\ target = Dict(<<Item("b", Dict(<<Item("b", Str("old")), Item("a", EmptyDict)>>))>>)

C13_Witness ==
    /\ merges = 1
    /\ target0 = Dict(<<Item("b", Str("old"))>>)
    /\ source = Dict(<<Item("a", Dict(<<Item("b", Str("new"))>>))>>)
    /\ target = Dict(<<Item("b", Str("old")),
                       Item("a", Dict(<<Item("b", Str("new"))>>))>>)

----------------------------------------------------------------------------
(* The payload under merging (SpecHeap) *)

\* C14: the source mapping is immutable under merging: after
\* deep_merge(target, source), and after any later in-place merge into the
\* same target, the tree of every payload, every nested mapping of it
\* included, equals what it was before the first merge.
C14_SourceUnchanged ==
    \A n \in 1..Len(refs.sources) : Deref(heap, refs.sources[n]) = payload0[n]

\* both payloads merged, the first one's nested mapping and array taken
\* into the target and the second one's values stored over them
C14_Witness ==
    /\ merges = 2
    /\ raised = NoExc
    /\ target0 = EmptyDict
    /\ payload0 = <<Dict(<<Item("a", Dict(<<Item("b", Arr(<<Str("new")>>))>>))>>),
                    Dict(<<Item("a", Dict(<<Item("b", Str("new"))>>))>>)>>
    /\ Deref(heap, refs.target) = Dict(<<Item("a", Dict(<<Item("b", Str("new"))>>))>>)

----------------------------------------------------------------------------
(* The order of the file accesses (Spec) *)

\* the positions of io at which path p was opened in the given mode
Opens(mode, p) == {i \in 1..Len(io) : io[i] = Io(mode, p)}

\* C15: within one script run the two locale files are processed one at a
\* time, en first and then zh: the zh call begins after the en call has
\* returned and every access to the en file precedes every access to the
\* zh file; each path is opened for reading at most once and for writing at
\* most once, the read before the write; a path whose call has returned is
\* never called or opened again, whether the call failed or not.
C15_OnePassEnThenZh ==
    /\ path = ZH_PATH => EN_PATH \in done
    /\ \A i \in 1..Len(io) : io[i].path \in done \cup {path}
    /\ \A i, j \in 1..Len(io) :
           (io[i].path = ZH_PATH /\ io[j].path = EN_PATH) => j < i
    /\ \A p \in Paths :
           /\ Cardinality(Opens("r", p)) <= 1
           /\ Cardinality(Opens("w", p)) <= 1
           /\ \A i \in Opens("r", p), j \in Opens("w", p) : i < j
           /\ p \in done => (path # p /\ \A i \in 1..Len(rest) : rest[i] # p)

\* the en call fails at the merge and is not repeated; both files were read
\* and the zh file written
C15_Witness ==
    /\ done = Paths
    /\ pc = "main"
    /\ io = <<Io("r", EN_PATH), Io("r", ZH_PATH), Io("w", ZH_PATH)>>
    /\ Printed("Error updating", EN_PATH)
    /\ Printed("Updated", ZH_PATH)

----------------------------------------------------------------------------
(* The two calls share nothing (Spec) *)

\* what the file of p held when update_json(p) was called, as a tree; {}
\* when there was no file
Base(p) == IF pre[p].exists THEN Loads(pre[p].text).value ELSE EmptyDict

\* C16: no state is shared across the files: a step of update_json(path)
\* changes no file but the one at path and opens no other, so the en call
\* leaves the zh file as it was and the zh call the en file; and the tree a
\* call is about to write is the merge of its own payload into its own
\* file's tree, with nothing of the other path's file or payload in it.
C16_NoSharedState ==
    /\ [][\A p \in Paths :
             /\ p # path => fs'[p] = fs[p]
             /\ Opens("r", p) # Opens("r", p)' => path = p
             /\ Opens("w", p) # Opens("w", p)' => path = p]_vars
    /\ [](\A p \in Paths :
             /\ (path = p /\ pc = "exists") => data = EmptyDict
             /\ (path = p /\ pc \in {"open_w", "dump", "print"}) =>
                    data = DeepMerge(Base(p), new_keys[p]).tree
             /\ ~Called(p) => fs[p] = fs0[p])

\* both calls succeeded, each file holds the merge of its own payload into
\* its own tree, and the two results differ
C16_Witness ==
    /\ done = Paths
    /\ Printed("Updated", EN_PATH)
    /\ Printed("Updated", ZH_PATH)
    /\ fs0[EN_PATH] = File(Dumps(Dict(<<Item("a", Str("old"))>>)))
    /\ fs0[ZH_PATH] = NoFile
    /\ new_keys[EN_PATH] = EmptyDict
    /\ new_keys[ZH_PATH] = Dict(<<Item("a", Dict(<<Item("a", Str("new"))>>))>>)
    /\ fs[EN_PATH] = fs0[EN_PATH]
    /\ fs[ZH_PATH] = File(Dumps(new_keys[ZH_PATH]))

----------------------------------------------------------------------------
(* The file format (SpecJson) *)

\* C17: round trip of the file format: for every locale tree (mappings with
\* string keys, strings, non-ASCII and escaped characters included, arrays
\* of strings) the text json.dump writes for it, read back from the file
\* with json.load, is a tree equal to it.
C17_RoundTrip ==
    loaded # NotLoaded => (loaded.ok /\ loaded.value = obj)

\* a tree with a non-ASCII key, non-ASCII and escaped text and an array has
\* been written and read back
C17_Witness ==
    /\ loaded.ok
    /\ loaded.value = obj
    /\ obj = Dict(<<Item("Z\"", Str("EZM")),
                    Item("a", Arr(<<Str("Z"), Str("\\")>>))>>)

----------------------------------------------------------------------------
(* The root of the written file (SpecCall) *)

\* C18: the file left by a successful update_json is object-rooted:
\* whenever the success line is printed for a path, the JSON document in
\* its file has a mapping at its root, also when the file held valid JSON
\* with another root (an array, a string, null) before the call.
C18_SuccessLeavesObjectRoot ==
    \A p \in Paths :
        Printed("Updated", p) =>
            /\ Loads(fs[p].text).ok
            /\ IsDict(Loads(fs[p].text).value)

----------------------------------------------------------------------------
(* The order of the keys in the written file (SpecCall) *)

\* the keys of a dict, in insertion order
KeySeq(d) == [i \in 1..Len(d.v) |-> d.v[i].k]

RECURSIVE OrderKept(_, _, _)
\* the keys of r are the keys of a in a's order followed by the keys only b
\* has in b's order, and so inside every mapping that went into r
OrderKept(a, b, r) ==
    /\ IsDict(r)
    /\ KeySeq(r) = KeySeq(a) \o SelectSeq(KeySeq(b), LAMBDA key : ~Has(a, key))
    /\ \A key \in KeysOf(a) :
           IsDict(Get(a, key)) =>
               IF ~Has(b, key)
               THEN OrderKept(Get(a, key), EmptyDict, Get(r, key))
               ELSE IsDict(Get(b, key)) =>
                        OrderKept(Get(a, key), Get(b, key), Get(r, key))
    /\ \A key \in KeysOf(b) \ KeysOf(a) :
           IsDict(Get(b, key)) => OrderKept(EmptyDict, Get(b, key), Get(r, key))

\* C19: key insertion order is preserved on write: in the file a successful
\* update_json leaves, the keys the base held keep their relative order,
\* also where the value was overwritten, and the keys the payload introduces
\* come after them in payload order, at every nesting level.
C19_KeyOrderKept ==
    \A p \in Paths :
        (Printed("Updated", p) /\ IsDict(Base(p))) =>
            /\ Loads(fs[p].text).ok
            /\ OrderKept(Base(p), new_keys[p], Loads(fs[p].text).value)

\* the base holds b, the payload a and then b: b is overwritten in place
\* and a comes after it
C19_Witness ==
    /\ Printed("Updated", EN_PATH)
    /\ Base(EN_PATH) = Dict(<<Item("b", Str("old"))>>)
    /\ new_keys[EN_PATH] = Dict(<<Item("a", Str("new")), Item("b", Str("new"))>>)
    /\ fs[EN_PATH] =
           File(Dumps(Dict(<<Item("b", Str("new")), Item("a", Str("new"))>>)))

----------------------------------------------------------------------------
(* The write comes last (SpecCall) *)

\* the exception types only the read, the parse and the merge raise
EarlyErrors == {"JSONDecodeError", "UnicodeDecodeError", "TypeError", "AttributeError"}

\* C20: the write of a path starts only after the read, the parse and the
\* whole merge have completed without error: the file is opened for writing
\* only with the completely merged tree in hand and no exception in flight,
\* and when the read, the parse or the merge raises (malformed JSON, a
\* non-object root, a payload mapping meeting a non-mapping base value) the
\* file is never opened for writing and holds what it held before the call,
\* whatever the merge had already done to the tree in memory.
C20_WriteOnlyAfterMerge ==
    /\ pc \in {"open_w", "dump", "print"} =>
           /\ exc = NoRaise
           /\ ~Clash(Base(path), new_keys[path])
           /\ data = DeepMerge(Base(path), new_keys[path]).tree
    /\ (pc = "except" /\ exc.lineno \in {51, 52, 63}) =>
           /\ Opens("w", path) = {}
           /\ fs[path] = pre[path]
    /\ \A p \in Paths :
           (\E i \in 1..Len(stdout) :
                /\ stdout[i] \in {Line("Error updating", p, e) : e \in EarlyErrors}) =>
               /\ Opens("w", p) = {}
               /\ fs[p] = pre[p]

\* the merge raised on a payload mapping that met a string of the base,
\* after it had assigned another key in memory; the file was not opened for
\* writing and holds what it held
C20_Witness ==
    /\ pc = "except"
    /\ exc = Exc("TypeError", 63)
    /\ pre[EN_PATH] = File(Dumps(Dict(<<Item("b", Str("old"))>>)))
    /\ new_keys[EN_PATH] \in StagedPayloads
    /\ data = Dict(<<Item("b", Str("old")), Item("a", Str("new"))>>)
    /\ io = <<Io("r", EN_PATH)>>
    /\ fs[EN_PATH] = pre[EN_PATH]

----------------------------------------------------------------------------
(* The success line comes after the write (SpecCall) *)

\* C21: the success line "Updated <path>" is printed only after the write
\* of that path has finished: in every state in which the line has been
\* printed the file was opened for writing, the write is behind the call
\* and the file holds the complete text of the merge of the payload into
\* what the file held when the call began.
C21_SuccessAfterWrite ==
    \A p \in Paths :
        Printed("Updated", p) =>
            /\ Opens("w", p) # {}
            /\ path = p => pc = "return"
            /\ ~Clash(Base(p), new_keys[p])
            /\ fs[p] = File(Dumps(DeepMerge(Base(p), new_keys[p]).tree))

\* the success line is out and the file holds the merge of a payload with
\* a nested mapping into a base that had the mapping already
C21_Witness ==
    /\ pc = "return"
    /\ Printed("Updated", EN_PATH)
    /\ Base(EN_PATH) = Dict(<<Item("b", Dict(<<Item("a", Str("old"))>>))>>)
    /\ new_keys[EN_PATH] = Dict(<<Item("b", Dict(<<Item("b", Str("new"))>>))>>)
    /\ fs[EN_PATH] =
           File(Dumps(Dict(<<Item("b", Dict(<<Item("a", Str("old")),
                                             Item("b", Str("new"))>>))>>)))

----------------------------------------------------------------------------
(* Termination (SpecLive) *)

\* both paths have been reported and __main__ has nothing left to call
Finished ==
    /\ pc = "main"
    /\ rest = <<>>
    /\ done = Paths
    /\ \A p \in Paths : LinesFor(p) = 1

\* C22: every script run terminates: deep_merge descends strictly into the
\* payload, so a call makes at most one loop iteration per key of the
\* payload tree, and the run eventually reaches the state in which both
\* paths have been reported, whatever mix of successes and failures
\* occurred.
C22_RunTerminates ==
    /\ [](pc = "merge" =>
              DeepMerge(data, new_keys[path]).steps <= TreeSize(new_keys[path]))
    /\ <>Finished

\* the run is over after a failed parse of en and a failed write of zh
C22_Witness ==
    /\ Finished
    /\ stdout = <<Line("Error updating", EN_PATH, "JSONDecodeError"),
                  Line("Error updating", ZH_PATH, "OSError")>>
    /\ new_keys[ZH_PATH] \in StagedPayloads

----------------------------------------------------------------------------
(* Key sets (SpecMerge) *)

RECURSIVE KeysAreUnion(_, _, _)
\* the keys of r are those of a and those of b, and so inside every key at
\* which a and b both hold a mapping
KeysAreUnion(a, b, r) ==
    /\ IsDict(r)
    /\ KeysOf(r) = KeysOf(a) \cup KeysOf(b)
    /\ \A key \in KeysOf(a) \cap KeysOf(b) :
           (IsDict(Get(a, key)) /\ IsDict(Get(b, key))) =>
               KeysAreUnion(Get(a, key), Get(b, key), Get(r, key))

\* C23: deep_merge never deletes a key: whenever the merge of B into A
\* completes, the key set of the result is exactly keys(A) \cup keys(B), and
\* the same holds at every nested level where both hold a mapping.
C23_KeySetIsUnion ==
    (merges >= 1 /\ raised = NoExc) => KeysAreUnion(target0, source, target)

\* the nested mapping gains the payload's key and keeps its own
C23_Witness ==
    /\ merges = 1
    /\ raised = NoExc
    /\ target0 = Dict(<<Item("a", Dict(<<Item("b", Str("old"))>>))>>)
    /\ source = Dict(<<Item("a", Dict(<<Item("a", Str("new"))>>))>>)
    /\ KeysOf(target) = {"a"}
    /\ KeysOf(Get(target, "a")) = {"a", "b"}

----------------------------------------------------------------------------
(* A second run with the same payload (SpecAgain) *)

\* the exceptions open, read and write raise for reasons outside the program
Faults == {"PermissionError", "FileNotFoundError", "UnicodeDecodeError", "OSError"}

\* both runs are over and neither met a failure of the environment
RanTwice ==
    /\ pc = "main"
    /\ rest = <<>>
    /\ Len(stdout) = 2
    /\ \A i \in 1..2 : stdout[i].e \notin Faults

\* C24: running the driver twice in a row on the same path with the same
\* payload leaves the same file as running it once: the second run reports
\* what the first reported (success, or the same failure) and leaves the
\* file as the first run left it.  The environment is the same for both
\* runs: neither meets an I/O failure the other does not.
C24_SecondRunChangesNothing ==
    RanTwice =>
        /\ stdout[2] = stdout[1]
        /\ fs[EN_PATH] = pre[EN_PATH]

\* two successful runs on a file that held another key: the second run found
\* the merged file and wrote it back as it was
C24_Witness ==
    /\ RanTwice
    /\ stdout[1].line = "Updated"
    /\ fs0[EN_PATH] = File(Dumps(Dict(<<Item("a", Dict(<<Item("b", Str("old"))>>))>>)))
    /\ new_keys[EN_PATH] = Dict(<<Item("a", Dict(<<Item("a", Str("new"))>>))>>)
    /\ fs[EN_PATH] = File(Dumps(Dict(<<Item("a",
           Dict(<<Item("b", Str("old")), Item("a", Str("new"))>>))>>)))

----------------------------------------------------------------------------
(* Successive scripts on one file (SpecSeries) *)

RECURSIVE SameTree(_, _)
\* a and b are the same JSON value, the order of the keys set aside
SameTree(a, b) ==
    IF IsDict(a) /\ IsDict(b)
    THEN /\ KeysOf(a) = KeysOf(b)
         /\ \A key \in KeysOf(a) : SameTree(Get(a, key), Get(b, key))
    ELSE a = b

RECURSIVE Independent(_, _)
\* a and b share no leaf path and never disagree on whether a key is a
\* mapping or a leaf: a key of both is a mapping in both, and so below it
Independent(a, b) ==
    \A key \in KeysOf(a) \cap KeysOf(b) :
        /\ IsDict(Get(a, key))
        /\ IsDict(Get(b, key))
        /\ Independent(Get(a, key), Get(b, key))

\* the tree of the en file when the first script started
Base0 == IF fs0[EN_PATH].exists THEN Loads(fs0[EN_PATH].text).value ELSE EmptyDict

\* both scripts have run and both printed the success line
BothUpdated ==
    /\ pc = "main"
    /\ rest = <<>>
    /\ other.pc = "ended"
    /\ Len(stdout) = 2
    /\ \A i \in 1..2 : stdout[i] = Line("Updated", EN_PATH, NoExc)

\* C25: successive runs compose: after the driver ran with payload P1 and
\* then with payload P2 on the same path, both succeeding, the file is
\* merge(merge(base, P1), P2), with P2's value at every leaf path of P2, those
\* P1 names too included; and when P1 and P2 share no leaf path and never
\* disagree on whether a key is a mapping or a leaf, the other order succeeds
\* as well and leaves the same tree.
C25_RunsCompose ==
    BothUpdated =>
        LET P1 == other.new_keys[EN_PATH]
            P2 == new_keys[EN_PATH]
            m1 == DeepMerge(Base0, P1)
            m12 == DeepMerge(m1.tree, P2)
            m2 == DeepMerge(Base0, P2)
            m21 == DeepMerge(m2.tree, P1)
        IN /\ m1.exc = NoExc /\ m12.exc = NoExc
           /\ pre[EN_PATH] = File(Dumps(m1.tree))
           /\ fs[EN_PATH] = File(Dumps(m12.tree))
           /\ LeavesTaken(P2, m12.tree)
           /\ Independent(P1, P2) =>
                  /\ m2.exc = NoExc /\ m21.exc = NoExc
                  /\ SameTree(m12.tree, m21.tree)

\* two payloads that fill the same mapping with different keys, after a file
\* that held one of the keys
C25_Witness ==
    /\ BothUpdated
    /\ fs0[EN_PATH] = File(Dumps(Dict(<<Item("a", Dict(<<Item("b", Str("old"))>>))>>)))
    /\ other.new_keys[EN_PATH] = Dict(<<Item("a", Dict(<<Item("a", Str("new"))>>))>>)
    /\ new_keys[EN_PATH] = Dict(<<Item("a", Dict(<<Item("b", Str("newer"))>>))>>)
    /\ fs[EN_PATH] = File(Dumps(Dict(<<Item("a",
           Dict(<<Item("b", Str("newer")), Item("a", Str("new"))>>))>>)))

\* the same leaf path in both payloads: the later script's value is in the file
C25_WitnessOverride ==
    /\ BothUpdated
    /\ other.new_keys[EN_PATH] = Dict(<<Item("a", Str("new"))>>)
    /\ new_keys[EN_PATH] = Dict(<<Item("a", Str("newer"))>>)
    /\ Loads(fs[EN_PATH].text).value = Dict(<<Item("a", Str("newer"))>>)

----------------------------------------------------------------------------
(* Two scripts at the same time on one file (SpecConc) *)

\* both processes have ended and both printed the success line
BothSucceeded ==
    /\ pc = "main" /\ rest = <<>>
    /\ other.pc = "main" /\ other.rest = <<>>
    /\ stdout = <<Line("Updated", EN_PATH, NoExc), Line("Updated", EN_PATH, NoExc)>>

\* the tree in the file after update_json ran with payload a and then with
\* payload b, one after the other, on a file that held base: a call whose
\* merge raises leaves the file as it found it
SerialTree(base, a, b) ==
    LET ra == DeepMerge(base, a)
        t1 == IF ra.exc = NoExc THEN ra.tree ELSE base
        rb == DeepMerge(t1, b)
    IN IF rb.exc = NoExc THEN rb.tree ELSE t1

\* the texts the file can hold after both processes reported success, when
\* the process with payload w wrote last: w's merge into the other's result
\* if it loaded after the other wrote; w's merge into the base if it loaded
\* before, on its own or over the text the other wrote in between
LastWriterTexts(base, w, o) ==
    LET mw == DeepMerge(base, w)
        mo == DeepMerge(base, o)
        mow == DeepMerge(mo.tree, w)
    IN (IF mo.exc = NoExc /\ mow.exc = NoExc THEN {Dumps(mow.tree)} ELSE {})
       \cup (IF mw.exc = NoExc /\ mo.exc = NoExc
             THEN {Dumps(mw.tree), WriteAt0(Dumps(mo.tree), Dumps(mw.tree))}
             ELSE {})

C26_WitnessGarbled ==
    /\ BothSucceeded
    /\ ~Loads(fs[EN_PATH].text).ok

----------------------------------------------------------------------------
(* The empty mapping (SpecMerge) *)

\* C27: merging the empty mapping is the identity: deep_merge(A, {}) leaves
\* A as it was, and an entry of the payload whose value is {} leaves a
\* mapping that A holds at that key as it was, with all its keys.
C27_EmptyMappingChangesNothing ==
    merges >= 1 =>
        /\ source = EmptyDict => (target = target0 /\ raised = NoExc)
        /\ \A key \in KeysOf(source) \cap KeysOf(target0) :
               (Get(source, key) = EmptyDict /\ IsDict(Get(target0, key))) =>
                   Get(target, key) = Get(target0, key)

\* {} merged into a nested tree, twice
C27_Witness ==
    /\ merges = 2
    /\ source = EmptyDict
    /\ target0 = Dict(<<Item("a", Dict(<<Item("b", Str("old"))>>)), Item("b", Str("old"))>>)
    /\ target = target0

\* an entry {} at a key where the target holds a mapping of two keys
C27_WitnessEntry ==
    /\ merges = 1
    /\ source = Dict(<<Item("a", EmptyDict), Item("b", Str("new"))>>)
    /\ target0 = Dict(<<Item("a", Dict(<<Item("a", Str("old")), Item("b", Str("old"))>>))>>)
    /\ Get(target, "a") = Get(target0, "a")
    /\ Get(target, "b") = Str("new")

----------------------------------------------------------------------------
(* A failed write (SpecLive) *)

\* the write of p has just failed: open(path, 'w') or json.dump raised
WriteFailed(p) ==
    /\ pc = "except"
    /\ path = p
    /\ exc.lineno \in {65, 66}

\* C28: a failure while writing a path (the open for write refused, or an
\* error of json.dump after the file was opened) is reported with the error
\* line for that path and never with the success line, the file is not
\* opened for write a second time, and the next path is still processed.
C28_WriteFailureReported ==
    \A p \in Paths :
        /\ [](WriteFailed(p) =>
                  [](~Printed("Updated", p) /\ Cardinality(Opens("w", p)) = 1))
        /\ WriteFailed(p) ~>
               (p \in done /\ LinesFor(p) = 1 /\ Printed("Error updating", p))
        /\ WriteFailed(EN_PATH) ~> (ZH_PATH \in done /\ LinesFor(ZH_PATH) = 1)

\* json.dump failed on en after two tokens; zh was updated afterwards
C28_Witness ==
    /\ done = Paths
    /\ stdout = <<Line("Error updating", EN_PATH, "OSError"),
                  Line("Updated", ZH_PATH, NoExc)>>
    /\ Cardinality(Opens("w", EN_PATH)) = 1
    /\ Len(fs[EN_PATH].text) = MaxWritten
    /\ fs[ZH_PATH] = File(Dumps(new_keys[ZH_PATH]))

====
